---- MODULE Spec2Model ----
(***************************************************************************)
(* Care Coordinator agent: the turn loop of Agent.chat, the tool           *)
(* dispatcher, the booking accumulator (AppointmentBooking) and the        *)
(* conversation reset, as a state machine.                                 *)
(*                                                                         *)
(* One chat() call is a sequence of steps: Chat (the user message is       *)
(* appended), then one LoopPass per pass of the while loop (the provider   *)
(* call and what the pass does with the reply), one ExecTool per           *)
(* iteration of the for loop over the extracted tool calls, and            *)
(* ReturnFallback when the while condition fails.  pc is the position of   *)
(* the call; a session is single-threaded, so reset_conversation() runs    *)
(* only between chat() calls.                                              *)
(***************************************************************************)
EXTENDS Integers, Sequences, FiniteSets, TLC

VARIABLES
    booking,          \* Agent.booking: the AppointmentBooking fields
    messages,         \* Agent.messages: the transcript
    iteration_count,  \* Agent.iteration_count
    pc,               \* position of the running chat() call, or "idle"
    pending,          \* tool calls of the current pass not yet executed
    ret,              \* value returned by the last call that returned
    agents,           \* run_agent.agents: user id -> Agent object (0: no entry)
    objects,          \* the Agent objects alive, by reference (slot)
    handlers,         \* the event handlers running, one per server thread
    connected,        \* the operator's client is connected
    events            \* number of events the server has taken

agent_vars == <<booking, messages, iteration_count, pc, pending, ret>>
server_vars == <<agents, objects, handlers, connected, events>>
vars == <<booking, messages, iteration_count, pc, pending, ret,
          agents, objects, handlers, connected, events>>

-----------------------------------------------------------------------------
(* Program constants and the bounds of the model *)

MAX_ITERATIONS == 10
WARNING_THRESHOLD == 6

\* chat() calls in one conversation (operator messages in the transcript)
MaxTurns == 2
\* tool-call envelopes the provider writes in one conversation
MaxToolCalls == 2
\* characters of an argument value in the text of a tool call
MaxValueLen == 3
\* loop passes explored per conversation by the tool-centred specification
MaxPasses == 2
\* tool-call envelopes per conversation in the ceiling-centred specification
MaxLoopCalls == 1
\* server threads that handle events at the same time
MaxHandlers == 2
\* Agent objects alive at the same time
MaxAgents == 2
\* events the server handles
MaxEvents == 4
\* loop passes on one Agent of the server between two resets
MaxServerPasses == 1

-----------------------------------------------------------------------------
(* Python values: None, an int, a str *)

None == [t |-> "none"]
PyInt(i) == [t |-> "int", i |-> i]
PyStr(s) == [t |-> "str", s |-> s]

\* Python truthiness of a slot value: None, 0 and "" are falsy
Truthy(v) == v # None /\ v # PyInt(0) /\ v # PyStr("")

-----------------------------------------------------------------------------
(* AppointmentBooking *)

SlotFields == {"provider_id", "department_id", "appointment_type", "date",
               "appointment_time"}

\* Agent.patient: the session's Patient object, given to the constructor and
\* never assigned again
SessionPatient == [id |-> 1, ehr_id |-> "EHR-1"]

NewBooking ==
    [patient |-> SessionPatient, provider_id |-> None, provider_name |-> None, department_id |-> None,
     location_name |-> None, appointment_type |-> None, date |-> None,
     appointment_time |-> None, notes |-> None]

\* all(field is not None for field in required); self.patient is the
\* session's Patient object, which is never None
is_complete(b) == \A f \in SlotFields : b[f] # None

MissingIf(v, label) == IF ~Truthy(v) THEN <<label>> ELSE <<>>

missing_fields(b) ==
    MissingIf(b.provider_id, "provider")
    \o MissingIf(b.department_id, "location/department")
    \o MissingIf(b.appointment_type, "appointment type (NEW/ESTABLISHED)")
    \o MissingIf(b.date, "date")
    \o MissingIf(b.appointment_time, "time")

-----------------------------------------------------------------------------
(* Tool results (the dicts the handlers of tools.py return) *)

Result(kind, items, atype, jsonable) ==
    [kind |-> kind, items |-> items, atype |-> atype, jsonable |-> jsonable]

NoResult == Result("none", <<>>, None, TRUE)
\* {"error": "Unknown tool: ..."} and {"error": "Tool execution failed: ..."}
UnknownTool == Result("unknown_tool", <<>>, None, TRUE)
ExecFailed == Result("exec_failed", <<>>, None, TRUE)
\* {"error": ...} returned by a handler
ErrPayload == Result("error", <<>>, None, TRUE)
NotFound == Result("not_found", <<>>, None, TRUE)
Found(items) == Result("found", items, None, TRUE)
History(atype) == Result("history", <<>>, PyStr(atype), TRUE)
BookSuccess == Result("book_success", <<>>, None, TRUE)
BookFailure == Result("book_failure", <<>>, None, TRUE)
\* get_available_times: booked_times maps each date to a Python set, which
\* json.dumps cannot serialise; with no booked appointment it is {}
TimesFree == Result("times", <<>>, None, TRUE)
TimesBooked == Result("times", <<>>, None, FALSE)

Candidate(id, first, last) == [id |-> id, first_name |-> first, last_name |-> last]
Cand1 == Candidate(1, "Gregory", "House")
Cand2 == Candidate(2, "Meredith", "Grey")
Loc1 == [department_id |-> 1, location_name |-> "PPTH Orthopedics"]
Loc2 == [department_id |-> 2, location_name |-> "Jefferson Hospital"]

\* result.get('found'), result.get('providers', []), result.get('appointment_type')
GetFound(r) == r.kind = "found"
GetItems(r) == r.items
GetAppointmentType(r) == r.atype

\* appointments in the backend: the completed visits of the session's
\* patient to each provider in the last five years
VisitsOf(p) == IF p = 1 THEN <<[columns |-> TRUE]>> ELSE <<>>

\* provider_departments in the backend: the locations each provider works at
LocationsOf(p) ==
    CASE p = 1 -> <<Loc1>>
      [] p = 2 -> <<Loc2>>
      [] OTHER -> <<>>

-----------------------------------------------------------------------------
(* The handlers of tools.py over the answers of the backend.  An answer is
   an exception raised by requests.post or a response: its status (200 or
   not) and its body.  A body is text that is no JSON, the JSON value null,
   a JSON array, or a JSON object, of which the handlers read the keys
   results, success, appointment_id and confirmation. *)

Transport == [kind |-> "transport"]
Resp(ok, body) == [kind |-> "response", ok |-> ok, body |-> body]

BadJson == [json |-> "invalid"]
\* results: the rows data.get('results', []) reads (none when the key is
\* absent); success: data.get('success') is truthy; full: the keys
\* appointment_id and confirmation are present
Obj(results, success, full) ==
    [json |-> "object", results |-> results, success |-> success, full |-> full]

\* a row has the columns the query selects, or lacks them
HasColumns(row) == IF "columns" \in DOMAIN row THEN row.columns ELSE TRUE

Answers ==
    {Transport}
    \cup {Resp(ok, b) :
             ok \in BOOLEAN,
             b \in {BadJson, [json |-> "null"], [json |-> "list"]}
                   \cup {Obj(r, sc, f) : r \in {<<>>, <<[columns |-> TRUE]>>,
                                               <<[columns |-> FALSE]>>},
                                         sc \in BOOLEAN, f \in BOOLEAN}}

\* payloads of the handlers that the booking does not read
Insurance == Result("insurance", <<>>, None, TRUE)
\* the body of the response returned as it is
Verbatim(body) == Result("verbatim_" \o body.json, <<>>, None, TRUE)

\* requests.post raised, or response.json() / data.get(...) raises: the body
\* is no JSON, or it is JSON but no object
Raises(a) == a = Transport \/ a.body.json # "object"
\* data.get('results', [])
GetResults(a) == a.body.results

\* the common beginning of the query handlers: post, status test, json(),
\* get('results'); the except clause reduces every exception to the error
\* payload
QueryFails(a) == a = Transport \/ ~a.ok \/ Raises(a)

get_providers_by_specialty(a) ==
    IF QueryFails(a) THEN ErrPayload
    ELSE IF GetResults(a) = <<>> THEN NotFound
    ELSE Found(GetResults(a))

get_provider_locations(a) ==
    IF QueryFails(a) THEN ErrPayload
    ELSE IF GetResults(a) = <<>> THEN NotFound
    ELSE Found(GetResults(a))

get_available_times(a1, a2) ==
    IF QueryFails(a1) THEN ErrPayload
    ELSE IF GetResults(a1) = <<>> THEN ErrPayload
    ELSE IF ~HasColumns(GetResults(a1)[1]) THEN ErrPayload
    ELSE IF QueryFails(a2) THEN ErrPayload
    ELSE IF \E i \in DOMAIN GetResults(a2) : ~HasColumns(GetResults(a2)[i])
    THEN ErrPayload
    ELSE IF GetResults(a2) = <<>> THEN TimesFree
    ELSE TimesBooked

\* faulty variant of check_appointment_history: the status of the last
\* visit is passed on as the verdict
HistoryPassesStatus(a) ==
    IF QueryFails(a) THEN ErrPayload
    ELSE IF GetResults(a) = <<>> THEN History("NEW")
    ELSE IF ~HasColumns(GetResults(a)[1]) THEN ErrPayload
    ELSE History("completed")

check_appointment_history(a) ==
    IF QueryFails(a) THEN ErrPayload
    ELSE IF GetResults(a) = <<>> THEN History("NEW")
    ELSE IF ~HasColumns(GetResults(a)[1]) THEN ErrPayload
    ELSE History("ESTABLISHED")

check_insurance(a1, a2) ==
    IF QueryFails(a1) THEN ErrPayload
    ELSE IF GetResults(a1) # <<>>
    THEN IF ~HasColumns(GetResults(a1)[1]) THEN ErrPayload ELSE Insurance
    ELSE IF a2 = Transport THEN ErrPayload
    ELSE IF ~a2.ok THEN Insurance
    ELSE IF Raises(a2) THEN ErrPayload
    ELSE IF \E i \in DOMAIN GetResults(a2) : ~HasColumns(GetResults(a2)[i])
    THEN ErrPayload
    ELSE Insurance

set_patient_insurance(a) ==
    IF a = Transport \/ a.body = BadJson THEN ErrPayload
    ELSE IF ~a.ok
    THEN ErrPayload
    ELSE Verbatim(a.body)

get_self_pay_rate(a) ==
    IF QueryFails(a) THEN ErrPayload
    ELSE IF GetResults(a) = <<>> THEN NotFound
    ELSE IF ~HasColumns(GetResults(a)[1]) THEN ErrPayload
    ELSE Result("rate", <<>>, None, TRUE)

book_appointment(a) ==
    IF Raises(a) THEN BookFailure
    ELSE IF ~a.ok THEN BookFailure
    ELSE IF a.body.success /\ a.body.full THEN BookSuccess
    ELSE BookFailure

query_database(a) ==
    IF QueryFails(a) THEN ErrPayload
    ELSE Result("query", <<>>, None, TRUE)


\* TOOL_FUNCTIONS[name] called with the answers its backend calls get
HandlerReturn(name, a1, a2) ==
    CASE name = "get_providers_by_specialty" -> get_providers_by_specialty(a1)
      [] name = "get_provider_locations" -> get_provider_locations(a1)
      [] name = "get_available_times" -> get_available_times(a1, a2)
      [] name = "check_appointment_history" -> check_appointment_history(a1)
      [] name = "check_insurance" -> check_insurance(a1, a2)
      [] name = "get_self_pay_rate" -> get_self_pay_rate(a1)
      [] name = "set_patient_insurance" -> set_patient_insurance(a1)
      [] name = "book_appointment" -> book_appointment(a1)
      [] name = "query_database" -> query_database(a1)

\* what a handler can return when it is called with arguments of its signature
HandlerResults(name) ==
    CASE name = "get_providers_by_specialty" ->
            {ErrPayload, NotFound, Found(<<Cand1>>), Found(<<Cand2>>),
             Found(<<Cand1, Cand2>>)}
      [] name = "get_provider_locations" ->
            {NotFound, Found(<<Loc1>>), Found(<<Loc1, Loc2>>)}
      [] name = "check_appointment_history" ->
            {check_appointment_history(a) : a \in Answers}
      [] name = "get_available_times" -> {TimesFree, TimesBooked}
      [] name = "book_appointment" -> {BookSuccess, BookFailure}
      [] OTHER -> {ErrPayload}

\* what the handler of a call can return: a call that carries its
\* provider_id argument is answered with the rows of that provider, unless
\* the backend call fails
CallResults(call) ==
    IF "provider_id" \notin DOMAIN call
    THEN HandlerResults(call.name)
    ELSE IF call.name = "get_provider_locations"
    THEN {get_provider_locations(a) :
             a \in {Transport,
                    Resp(TRUE, Obj(LocationsOf(call.provider_id), FALSE, FALSE)),
                    Resp(TRUE, Obj(<<[department_id |-> call.provider_id]>>,
                                   FALSE, FALSE))}}
    ELSE {check_appointment_history(a) :
             a \in {Transport,
                    Resp(TRUE, Obj(VisitsOf(call.provider_id), FALSE, FALSE))}}

\* Agent.tool_map: the registered capability names
tool_map ==
    {"get_providers_by_specialty", "get_provider_locations",
     "get_available_times", "check_appointment_history", "check_insurance",
     "get_self_pay_rate", "set_patient_insurance", "book_appointment",
     "query_database"}

-----------------------------------------------------------------------------
(* Assistant replies.  A reply is what _ready_to_book and _extract_tool_calls
   read of its text: whether it holds one of the six booking phrases, and
   its <tool_call> envelopes in order.  An envelope is tight when the name
   follows "<tool_call>" directly (the seventh phrase of _ready_to_book is
   the text "<tool_call>book_appointment"); _extract_tool_calls strips the
   envelope's text, so it extracts a loose envelope all the same.  An
   envelope whose text is not of the form name(args) is skipped. *)

Envelope(name, args_ok, tight) ==
    [name |-> name, args_ok |-> args_ok, tight |-> tight, parsed |-> TRUE]

\* an envelope whose text is no call name(args): re.match(func_pattern, ...)
\* finds nothing, e.g. <tool_call>book_appointment(patient_id=1</tool_call>
MalformedEnvelope(name, tight) ==
    [name |-> name, args_ok |-> FALSE, tight |-> tight, parsed |-> FALSE]

\* <tool_call>get_provider_locations(provider_id=p)</tool_call>
LocationsCall(p) ==
    [name |-> "get_provider_locations", args_ok |-> TRUE, tight |-> TRUE,
     parsed |-> TRUE, provider_id |-> p]

\* <tool_call>check_appointment_history(patient_id=1, provider_id=p)</tool_call>
HistoryCall(p) ==
    [name |-> "check_appointment_history", args_ok |-> TRUE, tight |-> TRUE,
     parsed |-> TRUE, provider_id |-> p]

Reply(phrase, calls) == [phrase |-> phrase, calls |-> calls]
NoReply == Reply(FALSE, <<>>)

\* faulty variant of _extract_tool_calls: every envelope counts as a call
ExtractEveryEnvelope(m) == m.calls

\* the envelopes that func_pattern matches, in the order written
_extract_tool_calls(m) == SelectSeq(m.calls, LAMBDA e : e.parsed)

\* faulty variant of _ready_to_book: only the envelope is looked for, not the phrases
EnvelopeOnlyReadyToBook(m) ==
    \E i \in DOMAIN m.calls :
        m.calls[i].name = "book_appointment" /\ m.calls[i].tight

_ready_to_book(m) ==
    \/ m.phrase
    \/ \E i \in DOMAIN m.calls :
          m.calls[i].name = "book_appointment" /\ m.calls[i].tight

-----------------------------------------------------------------------------
(* The replies the provider can give with envelopes of Envs, at most n of
   them; a reply that holds a booking phrase holds at most one envelope *)

SeqsUpTo(S, n) == UNION {[1..k -> S] : k \in 0..n}

Replies(Envs, n) ==
    {Reply(FALSE, c) : c \in SeqsUpTo(Envs, n)}
    \cup {Reply(TRUE, c) : c \in SeqsUpTo(Envs, IF n > 1 THEN 1 ELSE n)}

-----------------------------------------------------------------------------
(* Transcript entries *)

Msg(role, kind, content, name, result, missing) ==
    [role |-> role, kind |-> kind, content |-> content, name |-> name,
     result |-> result, missing |-> missing]

SystemPrompt == Msg("system", "system_prompt", NoReply, "", NoResult, <<>>)
UserMsg == Msg("user", "operator", NoReply, "", NoResult, <<>>)
WarningNote == Msg("system", "warning", NoReply, "", NoResult, <<>>)
AssistantMsg(m) == Msg("assistant", "assistant", m, "", NoResult, <<>>)
\* "Booking result:\n..."
BookingResultMsg(r) == Msg("user", "booking_result", NoReply, "", r, <<>>)
\* "Cannot book yet. Still need: " + ', '.join(missing)
CannotBookMsg(missing) == Msg("user", "cannot_book", NoReply, "", NoResult, missing)
\* "Tool result for <name>:\n..."
ToolResultMsg(name, r) == Msg("user", "tool_result", NoReply, name, r, <<>>)

CountKind(msgs, kind) == Cardinality({i \in DOMAIN msgs : msgs[i].kind = kind})

RECURSIVE NumEnvelopes(_)
NumEnvelopes(msgs) ==
    IF msgs = <<>> THEN 0
    ELSE Len(Head(msgs).content.calls) + NumEnvelopes(Tail(msgs))

-----------------------------------------------------------------------------
(* Return values of chat() *)

Ret(kind, content) == [kind |-> kind, content |-> content]
NoRet == Ret("none", NoReply)
\* reset_conversation() returned (it returns None)
ResetRet == Ret("reset", NoReply)
\* return assistant_message
TextRet(m) == Ret("text", m)
\* "Error calling OpenAI: ..."
ErrorRet == Ret("error", NoReply)
\* "I've reached the maximum number of actions for this conversation. ..."
FallbackRet == Ret("fallback", NoReply)

-----------------------------------------------------------------------------
(* The server of run_agent.py: the registry agents, the Agent objects and
   the handlers of the socket events.  Every event is handled on a thread
   of its own; a handler's record holds the event, the position reached,
   the Agent it works on (its reference), the patient id of the event and
   the tool calls of chat() still to execute.  A thread that handles no
   event keeps the outcome of its last handler as position.  An Agent
   lives as long as the registry or a running handler refers to it; its
   slot is free afterwards. *)

User == "u1"
Threads == 1..MaxHandlers
PatientIds == {1, 2}

Handler(op, at, agent, patient, calls) ==
    [op |-> op, pc |-> at, agent |-> agent, patient |-> patient, pending |-> calls]
\* the handler returned: outcome is what it emitted ("message", "error") or
\* "resumed" when it emitted nothing
Finished(outcome) == Handler("idle", outcome, 0, 0, <<>>)

PatientOf(p) == [id |-> p, ehr_id |-> IF p = 1 THEN "EHR-1" ELSE "EHR-2"]
\* AppointmentBooking(patient=patient)
AppointmentBooking(patient) == [NewBooking EXCEPT !.patient = patient]
\* Agent(patient)
NewAgent(patient) ==
    [patient |-> patient, booking |-> AppointmentBooking(patient),
     messages |-> <<SystemPrompt>>, iteration_count |-> 0]

\* the greeting the provider writes for a new or reset conversation
GreetingMsg == Msg("assistant", "greeting", NoReply, "", NoResult, <<>>)

\* Agent.generate_initial_greeting(): one provider call; the greeting is
\* appended to the transcript and returned, or the call raises
generate_initial_greeting(a) ==
    {[raised |-> TRUE, agent |-> a],
     [raised |-> FALSE,
      agent |-> [a EXCEPT !.messages = Append(@, GreetingMsg)]]}

Refs == 1..MaxAgents
NoAgent == [free |-> TRUE]

\* the objects left when the Agents that neither the registry nor a
\* running handler refers to are freed
Collected(objs, ags, hs) ==
    [ref \in Refs |->
        IF \/ ags[User] = ref
           \/ \E t \in Threads : hs[t].agent = ref
        THEN objs[ref] ELSE NoAgent]

ServerInit ==
    /\ agents = [u \in {User} |-> 0]
    /\ objects = [ref \in Refs |-> NoAgent]
    /\ handlers = [t \in Threads |-> Finished("none")]
    /\ connected = FALSE
    /\ events = 0

-----------------------------------------------------------------------------
(* Agent.__init__ *)

Init ==
    /\ ServerInit
    /\ booking = NewBooking
    /\ messages = <<SystemPrompt>>
    /\ iteration_count = 0
    /\ pc = "idle"
    /\ pending = <<>>
    /\ ret = NoRet

-----------------------------------------------------------------------------
(* Agent._update_booking_state and Agent._execute_tool *)

\* faulty variant of SingleCandidate: the first of several candidates is taken too
AnyCandidate(items) == Len(items) >= 1

\* len(providers) == 1, len(locations) == 1
SingleCandidate(items) == Len(items) = 1

\* provider['id'], provider['first_name'], ... raises KeyError: the one
\* candidate lacks a key that the update reads
UpdateRaises(name, r) ==
    /\ GetFound(r)
    /\ SingleCandidate(GetItems(r))
    /\ \/ /\ name = "get_providers_by_specialty"
          /\ ~({"id", "first_name", "last_name"} \subseteq DOMAIN GetItems(r)[1])
       \/ /\ name = "get_provider_locations"
          /\ ~({"department_id", "location_name"} \subseteq DOMAIN GetItems(r)[1])

\* the booking that _update_booking_state leaves, also when it raises: the
\* assignments made before the KeyError stay
_update_booking_state(b, name, r) ==
    LET c  == GetItems(r)[1]
        b1 == IF /\ name = "get_providers_by_specialty"
                 /\ GetFound(r)
                 /\ SingleCandidate(GetItems(r))
              THEN IF "id" \notin DOMAIN c THEN b
                   ELSE IF UpdateRaises(name, r)
                   THEN [b EXCEPT !.provider_id = PyInt(c.id)]
                   ELSE [b EXCEPT !.provider_id = PyInt(c.id),
                                  !.provider_name =
                                      PyStr("Dr. " \o c.first_name
                                            \o " " \o c.last_name)]
              ELSE b
        b2 == IF /\ name = "get_provider_locations"
                 /\ GetFound(r)
                 /\ SingleCandidate(GetItems(r))
              THEN IF "department_id" \notin DOMAIN c THEN b1
                   ELSE IF UpdateRaises(name, r)
                   THEN [b1 EXCEPT !.department_id = PyInt(c.department_id)]
                   ELSE [b1 EXCEPT !.department_id = PyInt(c.department_id),
                                   !.location_name = PyStr(c.location_name)]
              ELSE b1
        b3 == IF name = "check_appointment_history"
              THEN [b2 EXCEPT !.appointment_type = GetAppointmentType(r)]
              ELSE b2
    IN  b3

\* faulty variant of _execute_tool: the registry is looked up inside the try
ExecuteToolLookupInTry(b, call) ==
    IF call.name \notin tool_map \/ ~call.args_ok
    THEN {[result |-> ExecFailed, booking |-> b]}
    ELSE {[result |-> IF UpdateRaises(call.name, r) THEN ExecFailed ELSE r,
           booking |-> _update_booking_state(b, call.name, r)] :
             r \in CallResults(call)}

\* The outcomes of _execute_tool(call) on booking b: the result it returns
\* and the booking it leaves.  An unknown name returns before any handler
\* runs; arguments that do not fit the handler's signature raise TypeError
\* at the call, which the except clause reduces to an error result.
_execute_tool(b, call) ==
    IF call.name \notin tool_map
    THEN {[result |-> UnknownTool, booking |-> b]}
    ELSE IF ~call.args_ok
    THEN {[result |-> ExecFailed, booking |-> b]}
    ELSE {[result |-> IF UpdateRaises(call.name, r) THEN ExecFailed ELSE r,
           booking |-> _update_booking_state(b, call.name, r)] :
             r \in CallResults(call)}

-----------------------------------------------------------------------------
(* Agent.chat *)

\* faulty variant of LoopGuard: the loop has no ceiling
LoopGuardUnbounded(c) == TRUE

\* faulty variant of LoopGuard: the ceiling compared with <=
LoopGuardInclusive(c) == c <= MAX_ITERATIONS

\* while self.iteration_count < MAX_ITERATIONS
LoopGuard(c) == c < MAX_ITERATIONS

\* faulty variant of NextCount: the counter starts over at the ceiling
NextCountWrapping(c) == (c + 1) % MAX_ITERATIONS

\* self.iteration_count += 1
NextCount(c) == c + 1

\* faulty variant of WarningDue: the threshold compared with >=
WarningDueFrom(c) == c >= WARNING_THRESHOLD

\* if self.iteration_count == WARNING_THRESHOLD
WarningDue(c) == c = WARNING_THRESHOLD

\* faulty variant of CommitGate: the ready-to-book branch books without the test
CommitGateOpen(b) == TRUE

\* if self.booking.is_complete()  (the gate of the ready-to-book branch)
CommitGate(b) == is_complete(b)

\* raise ValueError(...)
Raised(exc) == [kind |-> "raised", exc |-> exc]

\* the dict to_booking_request() returns
BookingRequest(b) ==
    [kind |-> "payload",
     patient_id |-> PyInt(b.patient.id),
     provider_id |-> b.provider_id, department_id |-> b.department_id,
     appointment_type |-> b.appointment_type, date |-> b.date,
     appointment_time |-> b.appointment_time,
     notes |-> IF Truthy(b.notes) THEN b.notes ELSE PyStr("")]

\* faulty variant of to_booking_request: the payload is built without the test
RequestWithoutCheck(b) == BookingRequest(b)

\* to_booking_request(): the payload of a complete booking, ValueError otherwise
to_booking_request(b) ==
    IF ~is_complete(b) THEN Raised("ValueError") ELSE BookingRequest(b)

\* faulty variant of ReturnError: the pass is given up and the loop tried again
RetryAfterError == pc' = "loop" /\ ret' = ret

\* except Exception as e: return "Error calling OpenAI: ..."
ReturnError == pc' = "idle" /\ ret' = ErrorRet

\* faulty variant of Chat: the user message takes the place of the last entry
ChatOverwritesLast ==
    /\ UNCHANGED server_vars
    /\ pc = "idle"
    /\ CountKind(messages, "operator") < MaxTurns
    /\ messages' = [messages EXCEPT ![Len(messages)] = UserMsg]
    /\ pc' = "loop"
    /\ ret' = NoRet
    /\ UNCHANGED <<booking, iteration_count, pending>>

\* chat(user_message) up to the first test of the while condition
Chat ==
    /\ UNCHANGED server_vars
    /\ pc = "idle"
    /\ CountKind(messages, "operator") < MaxTurns
    /\ messages' = Append(messages, UserMsg)
    /\ pc' = "loop"
    /\ ret' = NoRet
    /\ UNCHANGED <<booking, iteration_count, pending>>

\* One pass of the while loop, from the increment of the counter to the
\* return, the continue or the start of the for loop over the tool calls.
\* The provider's reply writes envelopes of Envs, at most budget of them in
\* one conversation.
LoopPass(Envs, budget) ==
    /\ UNCHANGED server_vars
    /\ pc = "loop"
    /\ LoopGuard(iteration_count)
    /\ LET c == NextCount(iteration_count)
           msgs1 == IF WarningDue(c) THEN Append(messages, WarningNote)
                    ELSE messages
       IN  /\ iteration_count' = c
           /\ \/ \* the provider call raises: return the error text
                 /\ messages' = msgs1
                 /\ ReturnError
                 /\ UNCHANGED <<booking, pending>>
              \/ \E m \in Replies(Envs, budget - NumEnvelopes(messages)) :
                    /\ LET msgs2 == Append(msgs1, AssistantMsg(m))
                       IN  IF _ready_to_book(m)
                           THEN IF CommitGate(booking)
                                THEN \E r \in HandlerResults("book_appointment") :
                                        /\ messages' = Append(msgs2, BookingResultMsg(r))
                                        /\ pc' = "loop"
                                        /\ UNCHANGED <<booking, pending, ret>>
                                ELSE /\ messages' = Append(msgs2,
                                            CannotBookMsg(missing_fields(booking)))
                                     /\ pc' = "loop"
                                     /\ UNCHANGED <<booking, pending, ret>>
                           ELSE IF _extract_tool_calls(m) = <<>>
                                THEN /\ messages' = msgs2
                                     /\ pc' = "idle"
                                     /\ ret' = TextRet(m)
                                     /\ UNCHANGED <<booking, pending>>
                                ELSE /\ messages' = msgs2
                                     /\ pending' = _extract_tool_calls(m)
                                     /\ pc' = "tools"
                                     /\ UNCHANGED <<booking, ret>>

\* faulty variant of ExecTool: the counter counts tool calls as well
ExecToolCounting ==
    /\ UNCHANGED server_vars
    /\ pc = "tools"
    /\ pending # <<>>
    /\ \E o \in _execute_tool(booking, Head(pending)) :
          /\ booking' = o.booking
          /\ messages' = Append(messages,
                                ToolResultMsg(Head(pending).name, o.result))
          /\ pending' = Tail(pending)
          /\ pc' = IF Tail(pending) = <<>> THEN "loop" ELSE "tools"
          /\ UNCHANGED ret
    /\ iteration_count' = iteration_count + 1

\* One iteration of "for tool_call in tool_calls": _execute_tool, then the
\* result is rendered with json.dumps and appended.  json.dumps raises on a
\* result it cannot serialise; the except clause of chat() then returns the
\* error text and the remaining tool calls are dropped.
ExecTool ==
    /\ UNCHANGED server_vars
    /\ pc = "tools"
    /\ pending # <<>>
    /\ \E o \in _execute_tool(booking, Head(pending)) :
          /\ booking' = o.booking
          /\ IF o.result.jsonable
             THEN /\ messages' = Append(messages,
                                    ToolResultMsg(Head(pending).name, o.result))
                  /\ pending' = Tail(pending)
                  /\ pc' = IF Tail(pending) = <<>> THEN "loop" ELSE "tools"
                  /\ UNCHANGED ret
             ELSE /\ pending' = <<>>
                  /\ ReturnError
                  /\ UNCHANGED messages
    /\ UNCHANGED iteration_count

\* The while condition fails: return the fixed message
ReturnFallback ==
    /\ UNCHANGED server_vars
    /\ pc = "loop"
    /\ ~LoopGuard(iteration_count)
    /\ pc' = "idle"
    /\ ret' = FallbackRet
    /\ UNCHANGED <<booking, messages, iteration_count, pending>>

\* faulty variant of ResetConversation: the booking is not rebuilt
ResetKeepsBooking ==
    /\ UNCHANGED server_vars
    /\ pc = "idle"
    /\ messages' = <<messages[1]>>
    /\ iteration_count' = 0
    /\ ret' = ResetRet
    /\ UNCHANGED <<booking, pc, pending>>

\* Agent.reset_conversation
ResetConversation ==
    /\ UNCHANGED server_vars
    /\ pc = "idle"
    /\ messages' = <<messages[1]>>
    /\ iteration_count' = 0
    /\ booking' = NewBooking
    /\ ret' = ResetRet
    /\ UNCHANGED <<pc, pending>>

-----------------------------------------------------------------------------
(* The envelopes the provider writes *)


LoopEnvelopes ==
    {Envelope("check_appointment_history", TRUE, TRUE)}

ToolEnvelopes ==
    {Envelope("get_providers_by_specialty", TRUE, TRUE),
     Envelope("get_providers_by_specialty", FALSE, TRUE),
     Envelope("get_provider_locations", TRUE, TRUE),
     Envelope("check_appointment_history", TRUE, TRUE),
     Envelope("get_available_times", TRUE, TRUE),
     Envelope("lookup_patient", TRUE, TRUE),
     MalformedEnvelope("get_provider_locations", TRUE),
     Envelope("book_appointment", TRUE, TRUE),
     Envelope("book_appointment", TRUE, FALSE),
     MalformedEnvelope("book_appointment", TRUE)}

-----------------------------------------------------------------------------
(* Spec: conversations up to the iteration ceiling, the provider's tool
   calls drawn from LoopEnvelopes.
   SpecTools: the first MaxPasses passes of a conversation, the provider's
   tool calls drawn from ToolEnvelopes. *)

LoopPassAny == LoopPass(LoopEnvelopes, MaxLoopCalls)

LoopPassTools == iteration_count < MaxPasses /\ LoopPass(ToolEnvelopes, MaxToolCalls)

Next ==
    \/ Chat
    \/ LoopPassAny
    \/ ExecTool
    \/ ReturnFallback
    \/ ResetConversation

Spec == Init /\ [][Next]_vars

NextTools ==
    \/ Chat
    \/ LoopPassTools
    \/ ExecTool
    \/ ResetConversation

SpecTools == Init /\ [][NextTools]_vars

-----------------------------------------------------------------------------
(* SpecBooking: the first MaxPasses passes of a conversation in which the
   provider looks up what a booking needs: the providers of a specialty,
   the locations of provider 1 or 2, the appointment history. *)

MaxBookingCalls == 3

BookingEnvelopes ==
    {Envelope("get_providers_by_specialty", TRUE, TRUE),
     LocationsCall(1), LocationsCall(2),
     HistoryCall(1), HistoryCall(2)}

LoopPassBooking ==
    iteration_count < MaxPasses /\ LoopPass(BookingEnvelopes, MaxBookingCalls)

NextBooking ==
    \/ Chat
    \/ LoopPassBooking
    \/ ExecTool
    \/ ResetConversation

SpecBooking == Init /\ [][NextBooking]_vars

-----------------------------------------------------------------------------
(* SpecSlot: the AppointmentBooking dataclass on its own.  A booking is
   constructed with any value of each slot's type (None, an int, a str,
   the falsy 0 and "" among them) and is_complete() and missing_fields()
   and to_booking_request() are called on it. *)

IdValues == {None, PyInt(0), PyInt(1)}

SlotRet(b) ==
    [kind |-> "slot", complete |-> is_complete(b), missing |-> missing_fields(b)]

InitSlot ==
    /\ ServerInit
    /\ \E p \in IdValues, d \in IdValues,
          a \in {None, PyStr(""), PyStr("NEW")},
          dt \in {None, PyStr(""), PyStr("2026-03-25")},
          tm \in {None, PyStr(""), PyStr("14:00")} :
          booking = [NewBooking EXCEPT !.provider_id = p, !.department_id = d,
                                       !.appointment_type = a, !.date = dt,
                                       !.appointment_time = tm]
    /\ messages = <<SystemPrompt>>
    /\ iteration_count = 0
    /\ pc = "idle"
    /\ pending = <<>>
    /\ ret = NoRet

\* is_complete() and missing_fields() called on the booking
SlotQuery ==
    /\ UNCHANGED server_vars
    /\ ret' = SlotRet(booking)
    /\ UNCHANGED <<booking, messages, iteration_count, pc, pending>>

\* to_booking_request() called on the booking
SlotToRequest ==
    /\ UNCHANGED server_vars
    /\ ret' = to_booking_request(booking)
    /\ UNCHANGED <<booking, messages, iteration_count, pc, pending>>

NextSlot == SlotQuery \/ SlotToRequest

SpecSlot == InitSlot /\ [][NextSlot]_vars

-----------------------------------------------------------------------------
(* The argument grammar of _extract_tool_calls.  The text of a call is
   name(k=VALUE); VALUE is a sequence of characters.  arg_pairs is
   re.findall(r'(\w+)=([^,]+)', args_str): the value of k is the text up to
   the first comma, and there is no pair when that text is empty. *)

DQ == "\""
SQ == "'"
Chars == {DQ, SQ, "1", "-", "a", ",", " "}
Digits == {"1"}

RECURSIVE BeforeComma(_)
BeforeComma(t) ==
    IF t = <<>> \/ Head(t) = "," THEN <<>> ELSE <<Head(t)>> \o BeforeComma(Tail(t))

\* str.strip()
RECURSIVE LStrip(_)
LStrip(t) == IF t # <<>> /\ Head(t) = " " THEN LStrip(Tail(t)) ELSE t

RECURSIVE RStrip(_)
RStrip(t) ==
    IF t # <<>> /\ t[Len(t)] = " " THEN RStrip(SubSeq(t, 1, Len(t) - 1)) ELSE t

Strip(t) == RStrip(LStrip(t))

\* value[1:-1] when (value.startswith('"') and value.endswith('"')) or the
\* same with "'"
Unquote(v) ==
    IF /\ v # <<>>
       /\ \/ Head(v) = DQ /\ v[Len(v)] = DQ
          \/ Head(v) = SQ /\ v[Len(v)] = SQ
    THEN SubSeq(v, 2, Len(v) - 1)
    ELSE v

\* int(value) succeeds: optional blanks around an optional sign and digits
IsIntText(v) ==
    LET s == Strip(v)
        body == IF s # <<>> /\ Head(s) = "-" THEN Tail(s) ELSE s
    IN  body # <<>> /\ \A i \in DOMAIN body : body[i] \in Digits

RECURSIVE IntOfDigits(_)
IntOfDigits(d) ==
    IF d = <<>> THEN 0
    ELSE 10 * IntOfDigits(SubSeq(d, 1, Len(d) - 1)) + 1

IntOfText(v) ==
    LET s == Strip(v)
    IN  IF Head(s) = "-" THEN 0 - IntOfDigits(Tail(s)) ELSE IntOfDigits(s)

RECURSIVE Join(_)
Join(t) == IF t = <<>> THEN "" ELSE Head(t) \o Join(Tail(t))

\* the value stored in kwargs for the matched text, after
\* try: value = int(value) except ValueError: pass
ArgValue(matched) ==
    LET v == Unquote(Strip(matched))
    IN  IF IsIntText(v) THEN PyInt(IntOfText(v)) ELSE PyStr(Join(v))

\* kwargs of the call name(k=VALUE), as a sequence of key/value entries
ParseArguments(t) ==
    IF BeforeComma(t) = <<>> THEN <<>>
    ELSE <<[key |-> "k", value |-> ArgValue(BeforeComma(t))]>>

\* the call extracted from a text
ExtractedCall(t) == [kind |-> "call", text |-> t, arguments |-> ParseArguments(t)]

(* SpecArgs: the provider writes a call name(k=VALUE) with any VALUE of at
   most MaxValueLen characters and _extract_tool_calls parses it. *)
InitArgs ==
    /\ ServerInit
    /\ \E t \in SeqsUpTo(Chars, MaxValueLen) : pending = <<[kind |-> "text", text |-> t, arguments |-> <<>>]>>
    /\ booking = NewBooking
    /\ messages = <<SystemPrompt>>
    /\ iteration_count = 0
    /\ pc = "idle"
    /\ ret = NoRet

ExtractArguments ==
    /\ UNCHANGED server_vars
    /\ pending[1].kind = "text"
    /\ pending' = <<ExtractedCall(pending[1].text)>>
    /\ UNCHANGED <<booking, messages, iteration_count, pc, ret>>

NextArgs == ExtractArguments

SpecArgs == InitArgs /\ [][NextArgs]_vars

-----------------------------------------------------------------------------
(* SpecHandlers: a handler of tools.py is called and its backend calls get
   any of the answers. *)

HandlerRequest(name, a1, a2) ==
    [kind |-> "request", name |-> name, a1 |-> a1, a2 |-> a2]
HandlerReturned(name, a1, a2) ==
    [kind |-> "returned", name |-> name, a1 |-> a1, a2 |-> a2,
     result |-> HandlerReturn(name, a1, a2)]

InitHandlers ==
    /\ ServerInit
    /\ \E name \in tool_map : \E a1 \in Answers :
         \E a2 \in (IF name \in {"get_available_times", "check_insurance"}
                    THEN Answers ELSE {[kind |-> "no_answer"]}) :
            pending = <<HandlerRequest(name, a1, a2)>>
    /\ booking = NewBooking
    /\ messages = <<SystemPrompt>>
    /\ iteration_count = 0
    /\ pc = "idle"
    /\ ret = NoRet

CallHandler ==
    /\ UNCHANGED server_vars
    /\ pending[1].kind = "request"
    /\ pending' = <<HandlerReturned(pending[1].name, pending[1].a1, pending[1].a2)>>
    /\ UNCHANGED <<booking, messages, iteration_count, pc, ret>>

NextHandlers == CallHandler

SpecHandlers == InitHandlers /\ [][NextHandlers]_vars

-----------------------------------------------------------------------------
(* The API: calculate_arrival_time of api_helpers.py and the /api/book
   endpoint of flask-app.py.  A time is a text, a sequence of characters;
   datetime.strptime(text, '%H:%M') accepts one or two digits for the hour,
   a colon and one or two digits for the minute, with the hour at most 23
   and the minute at most 59, and raises ValueError for every other text. *)

MaxTimeLen == 5
TimeChars == {"0", "1", "2", "3", "5", ":"}
DigitText == <<"0", "1", "2", "3", "4", "5", "6", "7", "8", "9">>

\* the number that one or two digits denote, -1 for any other text
DigitsValue(d) ==
    LET val(c) == (CHOOSE i \in DOMAIN DigitText : DigitText[i] = c) - 1
    IN  IF Len(d) \in {1, 2} /\ \A i \in DOMAIN d : \E j \in DOMAIN DigitText : DigitText[j] = d[i]
        THEN IF Len(d) = 1 THEN val(d[1]) ELSE 10 * val(d[1]) + val(d[2])
        ELSE -1

\* datetime.strptime(text, '%H:%M'): the minute of the day, -1 for ValueError
strptime(text) ==
    LET colons == {i \in DOMAIN text : text[i] = ":"}
        i == CHOOSE j \in colons : TRUE
        h == DigitsValue(SubSeq(text, 1, i - 1))
        m == DigitsValue(SubSeq(text, i + 1, Len(text)))
    IN  IF Cardinality(colons) = 1 /\ h \in 0..23 /\ m \in 0..59
        THEN 60 * h + m
        ELSE -1

\* time.strftime('%H:%M') of a minute of the day
strftime(minute) ==
    LET h == minute \div 60
        m == minute % 60
    IN  <<DigitText[(h \div 10) + 1], DigitText[(h % 10) + 1], ":",
          DigitText[(m \div 10) + 1], DigitText[(m % 10) + 1]>>

\* faulty variant of calculate_arrival_time: a time less than minutes_early
\* after midnight is returned as it is
ArrivalWithoutWrap(appointment_time, appointment_type) ==
    LET time_obj == strptime(appointment_time)
        minutes_early == IF appointment_type = "NEW" THEN 30 ELSE 10
    IN  IF time_obj = -1 \/ time_obj < minutes_early THEN appointment_time
        ELSE strftime(time_obj - minutes_early)

\* time_obj is a datetime of 1900-01-01; subtracting the timedelta may
\* lead to the day before, of which strftime renders hour and minute
calculate_arrival_time(appointment_time, appointment_type) ==
    LET time_obj == strptime(appointment_time)
        minutes_early == IF appointment_type = "NEW" THEN 30 ELSE 10
    IN  IF time_obj = -1 THEN appointment_time
        ELSE strftime((time_obj - minutes_early) % 1440)

\* The requests to /api/book and the answers of the database.  Of the
\* request: the required field that is missing ("" for none), the
\* appointment_type, whether strptime(date, '%Y-%m-%d') succeeds, and the
\* appointment_time.  Of the database: whether the client is configured, what
\* the insert does (a row, no row, an exception) and whether the three
\* selects for the confirmation each return a row.
BookRequests ==
    [kind : {"book"},
     missing : {"", "patient_id", "provider_id", "department_id",
                "appointment_type", "date", "appointment_time"},
     appointment_type : {"NEW", "ESTABLISHED", "FOLLOWUP"},
     date_parses : BOOLEAN,
     appointment_time : {<<"0", "0", ":", "0", "5">>, <<"2", "5", ":", "0", "0">>},
     supabase : BOOLEAN,
     insert : {"row", "no_row", "raises"},
     selects : BOOLEAN]

\* book_appointment of flask-app.py: the response, and whether a row was
\* inserted into appointments
api_book_appointment(data) ==
    LET error(status) ==
            [status |-> status, success |-> FALSE, inserted |-> FALSE,
             details |-> <<>>]
        arrival_time == calculate_arrival_time(data.appointment_time,
                                               data.appointment_type)
    IN  IF ~data.supabase THEN error(500)
        ELSE IF data.missing # "" THEN error(400)
        ELSE IF data.appointment_type \notin {"NEW", "ESTABLISHED"} THEN error(400)
        ELSE IF ~data.date_parses THEN error(400)
        ELSE IF strptime(data.appointment_time) = -1 THEN error(400)
        ELSE IF data.insert # "row" THEN error(500)
        ELSE IF ~data.selects THEN [error(500) EXCEPT !.inserted = TRUE]
        ELSE [status |-> 200, success |-> TRUE, inserted |-> TRUE,
              details |-> <<[appointment_time |-> data.appointment_time,
                             arrival_time |-> arrival_time,
                             type |-> data.appointment_type]>>]

(* SpecApi: calculate_arrival_time is called with any text of at most
   MaxTimeLen characters and either type, and /api/book receives any of
   the requests. *)
InitApi ==
    /\ ServerInit
    /\ \/ \E t \in SeqsUpTo(TimeChars, MaxTimeLen) :
             \E ty \in {"NEW", "ESTABLISHED"} :
                pending = <<[kind |-> "time", appointment_time |-> t,
                             appointment_type |-> ty]>>
       \/ \E data \in BookRequests : pending = <<data>>
    /\ booking = NewBooking
    /\ messages = <<SystemPrompt>>
    /\ iteration_count = 0
    /\ pc = "idle"
    /\ ret = NoRet

CallArrivalTime ==
    /\ UNCHANGED server_vars
    /\ pending[1].kind = "time"
    /\ pending' = <<[kind |-> "arrival",
                     appointment_time |-> pending[1].appointment_time,
                     appointment_type |-> pending[1].appointment_type,
                     arrival_time |->
                        calculate_arrival_time(pending[1].appointment_time,
                                               pending[1].appointment_type)]>>
    /\ UNCHANGED <<booking, messages, iteration_count, pc, ret>>

CallBook ==
    /\ UNCHANGED server_vars
    /\ pending[1].kind = "book"
    /\ pending' = <<[kind |-> "booked", data |-> pending[1],
                     response |-> api_book_appointment(pending[1])]>>
    /\ UNCHANGED <<booking, messages, iteration_count, pc, ret>>

NextApi == CallArrivalTime \/ CallBook

SpecApi == InitApi /\ [][NextApi]_vars

-----------------------------------------------------------------------------
(* The event handlers of run_agent.py.  A step of a handler runs to its
   next call that blocks (the patient load, a provider call, a tool call);
   reset_conversation() is three assignments, each a step, since nothing
   keeps another thread from running between them. *)

SetHandler(t, h) == handlers' = [handlers EXCEPT ![t] = h]
\* the thread takes an event
StartHandler(t, h) ==
    /\ events' = events + 1
    /\ handlers' = [handlers EXCEPT ![t] = h]
\* the Agent at ref becomes a, and the Agents nothing refers to any more are
\* freed; stated after agents' and handlers'
SetAgent(ref, a) ==
    objects' = Collected([objects EXCEPT ![ref] = a], agents', handlers')
\* an event is taken by the first thread that handles none
Free(t) ==
    /\ handlers[t].op = "idle"
    /\ \A t2 \in Threads : t2 < t => handlers[t2].op # "idle"
    /\ events < MaxEvents

\* the replies of the provider to the server's chat() calls: a text, a
\* text with a booking phrase, a call of check_appointment_history
ServerReplies ==
    {Reply(FALSE, <<>>), Reply(TRUE, <<>>),
     Reply(FALSE, <<Envelope("check_appointment_history", TRUE, TRUE)>>)}

\* handle_connect up to the load of the patient: an Agent registered for the
\* same patient is resumed and nothing is emitted
handle_connect(t, p) ==
    /\ Free(t)
    /\ ~connected
    /\ connected' = TRUE
    /\ IF agents[User] # 0 /\ objects[agents[User]].patient.id = p
       THEN StartHandler(t, Finished("resumed"))
       ELSE StartHandler(t, Handler("connect", "load", 0, p, <<>>))
    /\ UNCHANGED <<agents, objects>>
    /\ UNCHANGED agent_vars

\* handle_next_patient up to the load of the patient
handle_next_patient(t, p) ==
    /\ Free(t)
    /\ connected
    /\ StartHandler(t, Handler("next_patient", "load", 0, p, <<>>))
    /\ UNCHANGED <<agents, objects>>
    /\ UNCHANGED connected
    /\ UNCHANGED agent_vars

\* initialize_agent_for_patient and what handle_connect and
\* handle_next_patient do with its outcome.  When the patient is not found
\* or the greeting raises, the handler emits the error and the registry is
\* left as it is.  Otherwise Agent(patient) is created and greeted, then
\* agents[user_id] = agent and the greeting is emitted.
initialize_agent_for_patient(t) ==
    /\ handlers[t].pc = "load"
    /\ \/ \* requests.get answers with a status other than 200
          /\ UNCHANGED agents
          /\ SetHandler(t, Finished("error"))
          /\ objects' = Collected(objects, agents', handlers')
       \/ \E o \in generate_initial_greeting(NewAgent(PatientOf(handlers[t].patient))) :
             IF o.raised
             THEN /\ UNCHANGED agents
                  /\ SetHandler(t, Finished("error"))
                  /\ objects' = Collected(objects, agents', handlers')
             ELSE \E ref \in Refs :
                     /\ objects[ref] = NoAgent
                     /\ \A r \in Refs : r < ref => objects[r] # NoAgent
                     /\ agents' = [agents EXCEPT ![User] = ref]
                     /\ SetHandler(t, Finished("message"))
                     /\ SetAgent(ref, o.agent)
    /\ UNCHANGED <<connected, events>>
    /\ UNCHANGED agent_vars

\* faulty variant of handle_message: without a registered Agent the
\* handler begins a session for patient 1 and answers with its greeting
MessageBeginsSession(t) ==
    /\ Free(t)
    /\ connected
    /\ IF agents[User] = 0
       THEN /\ StartHandler(t, Finished("message"))
            /\ agents' = [agents EXCEPT ![User] = 1]
            /\ objects' = [objects EXCEPT ![1] =
                              [NewAgent(PatientOf(1)) EXCEPT
                                  !.messages = <<SystemPrompt, GreetingMsg>>]]
       ELSE /\ StartHandler(t, Handler("message", "chat", agents[User], 0, <<>>))
            /\ UNCHANGED <<agents, objects>>
    /\ UNCHANGED connected
    /\ UNCHANGED agent_vars

\* handle_message up to the call of chat(): agents.get(user_id), then
\* data.get('text'); without an Agent, and with a text that is missing or
\* empty, an error is emitted and the handler returns
handle_message(t) ==
    /\ Free(t)
    /\ connected
    /\ \E text \in BOOLEAN :
          IF agents[User] = 0
          THEN StartHandler(t, Finished("no_agent"))
          ELSE IF ~text
          THEN StartHandler(t, Finished("no_text"))
          ELSE StartHandler(t, Handler("message", "chat", agents[User], 0, <<>>))
    /\ UNCHANGED <<agents, objects>>
    /\ UNCHANGED connected
    /\ UNCHANGED agent_vars

\* chat(user_message) up to the first test of the while condition
ServerChat(t) ==
    LET h == handlers[t]
        a == objects[h.agent]
    IN  /\ h.pc = "chat"
        /\ UNCHANGED <<agents, connected, events>>
        /\ SetHandler(t, [h EXCEPT !.pc = "loop"])
        /\ SetAgent(h.agent, [a EXCEPT !.messages = Append(@, UserMsg)])
        /\ UNCHANGED agent_vars

\* one pass of the while loop of chat() on the handler's Agent; when chat()
\* returns, handle_message emits its text with the booking progress
ServerLoopPass(t) ==
    LET h == handlers[t]
        a == objects[h.agent]
        c == NextCount(a.iteration_count)
        msgs1 == IF WarningDue(c) THEN Append(a.messages, WarningNote)
                 ELSE a.messages
        a1 == [a EXCEPT !.iteration_count = c, !.messages = msgs1]
    IN  /\ h.pc = "loop"
        /\ LoopGuard(a.iteration_count)
        /\ a.iteration_count < MaxServerPasses
        /\ UNCHANGED <<agents, connected, events>>
        /\ \/ \* the provider call raises: chat() returns the error text
              /\ SetHandler(t, Finished("message"))
              /\ SetAgent(h.agent, a1)
           \/ \E m \in ServerReplies :
                 LET msgs2 == Append(msgs1, AssistantMsg(m))
                 IN  IF _ready_to_book(m)
                     THEN IF CommitGate(a.booking)
                          THEN \E r \in HandlerResults("book_appointment") :
                                  /\ UNCHANGED handlers
                                  /\ SetAgent(h.agent, [a1 EXCEPT !.messages =
                                         Append(msgs2, BookingResultMsg(r))])
                          ELSE /\ UNCHANGED handlers
                               /\ SetAgent(h.agent, [a1 EXCEPT !.messages =
                                      Append(msgs2, CannotBookMsg(missing_fields(a.booking)))])
                     ELSE IF _extract_tool_calls(m) = <<>>
                          THEN /\ SetHandler(t, Finished("message"))
                               /\ SetAgent(h.agent, [a1 EXCEPT !.messages = msgs2])
                          ELSE /\ SetHandler(t, [h EXCEPT !.pc = "tools",
                                                !.pending = _extract_tool_calls(m)])
                               /\ SetAgent(h.agent, [a1 EXCEPT !.messages = msgs2])
        /\ UNCHANGED agent_vars

\* one iteration of the for loop over the tool calls on the handler's Agent
ServerExecTool(t) ==
    LET h == handlers[t]
        a == objects[h.agent]
    IN  /\ h.pc = "tools"
        /\ h.pending # <<>>
        /\ UNCHANGED <<agents, connected, events>>
        /\ \E o \in _execute_tool(a.booking, Head(h.pending)) :
              IF o.result.jsonable
              THEN /\ SetHandler(t, [h EXCEPT !.pending = Tail(@),
                          !.pc = IF Tail(h.pending) = <<>> THEN "loop" ELSE "tools"])
                   /\ SetAgent(h.agent, [a EXCEPT !.booking = o.booking,
                          !.messages = Append(@, ToolResultMsg(Head(h.pending).name,
                                                               o.result))])
              ELSE /\ SetHandler(t, Finished("message"))
                   /\ SetAgent(h.agent, [a EXCEPT !.booking = o.booking])
        /\ UNCHANGED agent_vars

\* handle_reset up to the call of reset_conversation(): agents.get(user_id)
handle_reset(t) ==
    /\ Free(t)
    /\ connected
    /\ IF agents[User] = 0
       THEN StartHandler(t, Finished("no_agent"))
       ELSE StartHandler(t, Handler("reset", "reset_messages", agents[User], 0, <<>>))
    /\ UNCHANGED <<agents, objects>>
    /\ UNCHANGED connected
    /\ UNCHANGED agent_vars

\* self.messages = [self.messages[0]]
ResetMessages(t) ==
    LET h == handlers[t]
        a == objects[h.agent]
    IN  /\ h.pc = "reset_messages"
        /\ UNCHANGED <<agents, connected, events>>
        /\ SetHandler(t, [h EXCEPT !.pc = "reset_count"])
        /\ SetAgent(h.agent, [a EXCEPT !.messages = <<a.messages[1]>>])
        /\ UNCHANGED agent_vars

\* self.iteration_count = 0
ResetCount(t) ==
    LET h == handlers[t]
        a == objects[h.agent]
    IN  /\ h.pc = "reset_count"
        /\ UNCHANGED <<agents, connected, events>>
        /\ SetHandler(t, [h EXCEPT !.pc = "reset_booking"])
        /\ SetAgent(h.agent, [a EXCEPT !.iteration_count = 0])
        /\ UNCHANGED agent_vars

\* self.booking = AppointmentBooking(patient=self.patient)
ResetBooking(t) ==
    LET h == handlers[t]
        a == objects[h.agent]
    IN  /\ h.pc = "reset_booking"
        /\ UNCHANGED <<agents, connected, events>>
        /\ SetHandler(t, [h EXCEPT !.pc = "reset_greet"])
        /\ SetAgent(h.agent, [a EXCEPT !.booking = AppointmentBooking(a.patient)])
        /\ UNCHANGED agent_vars

\* the greeting after the reset, then the message or the error
ResetGreeting(t) ==
    LET h == handlers[t]
    IN  /\ h.pc = "reset_greet"
        /\ UNCHANGED <<agents, connected, events>>
        /\ \E o \in generate_initial_greeting(objects[h.agent]) :
              /\ SetHandler(t, Finished(IF o.raised THEN "error" ELSE "message"))
              /\ SetAgent(h.agent, o.agent)
        /\ UNCHANGED agent_vars

\* faulty variant of handle_disconnect: the operator's Agent is deleted
DisconnectDeletes ==
    /\ connected
    /\ connected' = FALSE
    /\ agents' = [agents EXCEPT ![User] = 0]
    /\ UNCHANGED <<handlers, events>>
    /\ objects' = Collected(objects, agents', handlers')
    /\ UNCHANGED agent_vars

\* handle_disconnect: the client is gone, the Agent is kept
handle_disconnect ==
    /\ connected
    /\ connected' = FALSE
    /\ UNCHANGED <<agents, objects, handlers, events>>
    /\ UNCHANGED agent_vars

NextServer ==
    \/ \E t \in Threads : \E p \in PatientIds : handle_connect(t, p)
    \/ \E t \in Threads : \E p \in PatientIds : handle_next_patient(t, p)
    \/ \E t \in Threads : initialize_agent_for_patient(t)
    \/ \E t \in Threads : handle_message(t)
    \/ \E t \in Threads : ServerChat(t)
    \/ \E t \in Threads : ServerLoopPass(t)
    \/ \E t \in Threads : ServerExecTool(t)
    \/ \E t \in Threads : handle_reset(t)
    \/ \E t \in Threads : ResetMessages(t)
    \/ \E t \in Threads : ResetCount(t)
    \/ \E t \in Threads : ResetBooking(t)
    \/ \E t \in Threads : ResetGreeting(t)
    \/ handle_disconnect

SpecServer == Init /\ [][NextServer]_vars

\* SpecRegistry: the server when every event but the disconnect is taken
\* after the handler of the event before it has returned
NextRegistry ==
    \/ \E p \in PatientIds : handle_connect(1, p)
    \/ \E p \in PatientIds : handle_next_patient(1, p)
    \/ initialize_agent_for_patient(1)
    \/ handle_message(1)
    \/ ServerChat(1)
    \/ ServerLoopPass(1)
    \/ ServerExecTool(1)
    \/ handle_reset(1)
    \/ ResetMessages(1)
    \/ ResetCount(1)
    \/ ResetBooking(1)
    \/ ResetGreeting(1)
    \/ handle_disconnect

SpecRegistry == Init /\ [][NextRegistry]_vars

-----------------------------------------------------------------------------
(* Reading the transcript *)

Last(s) == s[Len(s)]

\* the entries a step appends
Appended == {i \in DOMAIN messages' : i > Len(messages)}

\* the step appends a reply of the provider; TheReply is that reply
ReplyAppended == \E i \in Appended : messages'[i].kind = "assistant"
TheReply == messages'[CHOOSE i \in Appended : messages'[i].kind = "assistant"].content

\* the step appends the result of a tool call
ToolResultAppended ==
    /\ Len(messages') = Len(messages) + 1
    /\ Last(messages').kind = "tool_result"

\* the book_appointment handler ran in this step: its own payload (success
\* or failure) reaches the transcript
BookHandlerRan ==
    /\ Appended # {}
    /\ \/ Last(messages').kind = "booking_result"
       \/ /\ Last(messages').kind = "tool_result"
          /\ Last(messages').name = "book_appointment"
          /\ Last(messages').result \in {BookSuccess, BookFailure}

-----------------------------------------------------------------------------
(* C1: book_appointment is never invoked while the booking's is_complete()
   is false, neither by the ready-to-book branch of chat() nor by a
   <tool_call> dispatched through _execute_tool. *)
C1_CommitOnlyWhenComplete == [][BookHandlerRan => is_complete(booking)]_vars

-----------------------------------------------------------------------------
(* C2: when the reply signals a commit (_ready_to_book) while is_complete()
   is false, chat() does not call the commit handler: the pass appends the
   reply and then one "Cannot book yet" message that lists exactly
   missing_fields(), leaves the booking alone and continues the loop. *)
CommitRefused == ReplyAppended /\ _ready_to_book(TheReply) /\ ~is_complete(booking)

RefusalStep ==
    CommitRefused =>
        /\ Last(messages') = CannotBookMsg(missing_fields(booking))
        /\ messages'[Len(messages') - 1] = AssistantMsg(TheReply)
        /\ {i \in Appended : messages'[i].kind \in
                                {"booking_result", "tool_result"}} = {}
        /\ booking' = booking
        /\ pc' = "loop"

\* C2 as stated: after the refusal the loop always makes another provider
\* call (the pass ends below the iteration ceiling).
C2_RefusalThenProviderCall ==
    [][RefusalStep /\ (CommitRefused => iteration_count' < MAX_ITERATIONS)]_vars

\* C2 as amended: after the refusal the loop tests the iteration budget;
\* below the ceiling the next step is another provider call, at the ceiling
\* chat() returns the fallback message and makes no provider call.
AfterRefusal ==
    (pc = "loop" /\ Last(messages).kind = "cannot_book") =>
        IF iteration_count < MAX_ITERATIONS
        THEN iteration_count' = iteration_count + 1
        ELSE /\ ret' = FallbackRet
             /\ pc' = "idle"
             /\ messages' = messages
             /\ iteration_count' = iteration_count

C2_RefusalThenBudgetTest == [][RefusalStep /\ AfterRefusal]_vars

\* a refusal on the last pass of the budget, answered by the fallback
C2_Witness ==
    /\ pc = "idle"
    /\ ret = FallbackRet
    /\ Last(messages).kind = "cannot_book"
    /\ Len(Last(messages).missing) = 4

-----------------------------------------------------------------------------
(* C3: a get_providers_by_specialty result writes the provider slot, and a
   get_provider_locations result the location slot, if and only if the
   result holds exactly one candidate; with zero or several candidates the
   slot is not written: a null slot stays null and stays in
   missing_fields().  Nothing else but a reset changes these slots. *)
InSeq(x, s) == \E i \in DOMAIN s : s[i] = x

LookupRule(tool, idSlot, nameSlot, idKey, label) ==
    LET e == Last(messages')
        n == Len(e.result.items)
    IN  IF ToolResultAppended /\ e.name = tool /\ n = 1
        THEN /\ booking'[idSlot] = PyInt(e.result.items[1][idKey])
             /\ booking'[nameSlot] # None
        ELSE \/ ResetConversation
             \/ /\ booking'[idSlot] = booking[idSlot]
                /\ booking'[nameSlot] = booking[nameSlot]
                /\ booking[idSlot] = None =>
                      InSeq(label, missing_fields(booking'))

C3_SlotWrittenIffOneCandidate ==
    [][/\ LookupRule("get_providers_by_specialty", "provider_id",
                     "provider_name", "id", "provider")
       /\ LookupRule("get_provider_locations", "department_id",
                     "location_name", "department_id", "location/department")]_vars

\* an ambiguous provider result that left the slot null, then a result with
\* one candidate that set it
C3_Witness ==
    /\ \E i, j \in DOMAIN messages :
          /\ i < j
          /\ messages[i] = ToolResultMsg("get_providers_by_specialty",
                                         Found(<<Cand1, Cand2>>))
          /\ messages[j] = ToolResultMsg("get_providers_by_specialty",
                                         Found(<<Cand2>>))
    /\ booking.provider_id = PyInt(2)
    /\ booking.department_id = None

-----------------------------------------------------------------------------
(* C4: in every Slot State is_complete() is true if and only if
   missing_fields() is the empty list, also when a slot holds a non-null
   falsy value (id 0, an empty string). *)
C4_CompleteIffNothingMissing ==
    is_complete(booking) <=> (missing_fields(booking) = <<>>)

-----------------------------------------------------------------------------
(* C5: once a slot (provider_id, department_id, appointment_type, date,
   appointment_time) is non-null, no chat() step and no tool result sets it
   back to null; only reset_conversation() clears it. *)
C5_SlotNeverCleared ==
    [][ResetConversation
       \/ \A f \in SlotFields : booking[f] # None => booking'[f] # None]_vars

-----------------------------------------------------------------------------
(* C6: when the while condition is tested with iteration_count at
   MAX_ITERATIONS, chat() returns the fixed fallback message and makes no
   provider call; the counter stays at the ceiling, so the same holds for
   every later chat() call, until reset_conversation() sets the counter to
   zero and passes run again. *)
AtCeiling ==
    iteration_count = MAX_ITERATIONS =>
        /\ ~ReplyAppended
        /\ ResetConversation \/ iteration_count' = iteration_count
        /\ pc = "loop" =>
              /\ ret' = FallbackRet
              /\ pc' = "idle"
              /\ messages' = messages

C6_CeilingReturnsFallback ==
    [][AtCeiling /\ (ResetConversation => iteration_count' = 0)]_vars

\* a later chat() call of a conversation that is at the ceiling
C6_Witness ==
    /\ pc = "idle"
    /\ ret = FallbackRet
    /\ Last(messages) = UserMsg
    /\ CountKind(messages, "assistant") = MAX_ITERATIONS

-----------------------------------------------------------------------------
(* C7: the warning note is injected once in a conversation, in the pass
   whose iteration count equals WARNING_THRESHOLD and before that pass's
   provider reply; later passes and later turns never inject it again, so
   the transcript never holds two warning notes. *)
WarningOnce ==
    CountKind(messages, "warning") =
        IF iteration_count >= WARNING_THRESHOLD THEN 1 ELSE 0

WarningStep ==
    CountKind(messages', "warning") > CountKind(messages, "warning") =>
        /\ iteration_count = WARNING_THRESHOLD - 1
        /\ iteration_count' = WARNING_THRESHOLD
        /\ messages'[Len(messages) + 1] = WarningNote
        /\ ReplyAppended => messages'[Len(messages) + 2] = AssistantMsg(TheReply)

-----------------------------------------------------------------------------
(* C8: iteration_count never decreases across the steps of chat(), the
   turns that end in a provider error or in the fallback message included;
   only reset_conversation() takes it back to zero. *)
C8_CounterMonotone ==
    [][ResetConversation \/ iteration_count' >= iteration_count]_vars

\* a second turn that ended in a provider error with the counter kept
C8_Witness ==
    /\ pc = "idle"
    /\ ret = ErrorRet
    /\ CountKind(messages, "operator") = MaxTurns
    /\ iteration_count = MAX_ITERATIONS

-----------------------------------------------------------------------------
(* C9 as stated: a reply that requests no tool call ends the loop in that
   pass and is returned as it is, whatever its text, a reply with a booking
   phrase included. *)
C9_NoCallsReturnsText ==
    [][(ReplyAppended /\ TheReply.calls = <<>>) =>
          (pc' = "idle" /\ ret' = TextRet(TheReply))]_vars

(* C9 as amended: a reply that holds no booking phrase and requests no tool
   call ends the loop in that pass and is returned as it is; this is the
   only exit that returns text of the provider. *)
PlainReplyStep ==
    (ReplyAppended /\ TheReply.calls = <<>> /\ ~TheReply.phrase) =>
        (pc' = "idle" /\ ret' = TextRet(TheReply))

ReturnedTextIsPlainReply ==
    ret.kind = "text" =>
        /\ pc = "idle"
        /\ ~ret.content.phrase
        /\ ret.content.calls = <<>>
        /\ Last(messages) = AssistantMsg(ret.content)

C9_PlainReplyReturned == []ReturnedTextIsPlainReply /\ [][PlainReplyStep]_vars

\* a reply returned in a later pass of a turn, after a refused commit
C9_Witness ==
    /\ ret.kind = "text"
    /\ Len(messages) >= 3
    /\ messages[Len(messages) - 1].kind = "cannot_book"

-----------------------------------------------------------------------------
(* C10: every tool call of one reply is executed once, in the order
   requested, and the k-th result appended in that pass is the result of
   the k-th call: when the for loop of a pass is over, the transcript ends
   with the reply followed by one result per call, in order. *)
LastReplyIndex(msgs) ==
    CHOOSE i \in DOMAIN msgs :
        /\ msgs[i].kind = "assistant"
        /\ \A j \in DOMAIN msgs : j > i => msgs[j].kind # "assistant"

C10_CallsExecutedInOrder ==
    [][(pc = "tools" /\ pc' # "tools") =>
          LET ia == LastReplyIndex(messages')
              calls == _extract_tool_calls(messages'[ia].content)
          IN  /\ Len(messages') = ia + Len(calls)
              /\ \A k \in 1..Len(calls) :
                    /\ messages'[ia + k].kind = "tool_result"
                    /\ messages'[ia + k].name = calls[k].name]_vars

-----------------------------------------------------------------------------
(* C11: a failure of the provider call aborts the turn at once: the pass
   appends no reply and no tool result, chat() returns the error text,
   the booking is left alone and no tool call is pending; no provider call
   and no tool execution follows in that turn. *)
ProviderCallFailed == iteration_count' = iteration_count + 1 /\ ~ReplyAppended

ProviderFailureStep ==
    ProviderCallFailed =>
        /\ pc' = "idle"
        /\ ret' = ErrorRet
        /\ booking' = booking
        /\ pending' = <<>>
        /\ \A i \in Appended : messages'[i] = WarningNote

ErrorEndsTurn == ret = ErrorRet => (pc = "idle" /\ pending = <<>>)

C11_ProviderFailureAbortsTurn == []ErrorEndsTurn /\ [][ProviderFailureStep]_vars

\* the provider call failed in a later pass, after a tool had been executed
C11_Witness ==
    /\ pc = "idle"
    /\ ret = ErrorRet
    /\ Last(messages).kind = "tool_result"

-----------------------------------------------------------------------------
(* C12: a tool call whose name is not in the registry yields the
   "Unknown tool" error result: no handler runs, the booking is unchanged,
   nothing is raised to chat(), the result is appended to the transcript
   and the turn goes on with the next call or the next pass. *)
UnknownRequested ==
    pc = "tools" /\ pending # <<>> /\ Head(pending).name \notin tool_map

C12_UnknownToolIsErrorResult ==
    [][UnknownRequested =>
          /\ messages' = Append(messages,
                                ToolResultMsg(Head(pending).name, UnknownTool))
          /\ booking' = booking
          /\ pending' = Tail(pending)
          /\ pc' = (IF Tail(pending) = <<>> THEN "loop" ELSE "tools")
          /\ ret' = ret]_vars

\* an unknown tool after a provider lookup that set the slot; the turn went
\* on to the next pass
C12_Witness ==
    /\ booking.provider_id # None
    /\ \E i, j \in DOMAIN messages :
          /\ i < j
          /\ messages[i] = ToolResultMsg("lookup_patient", UnknownTool)
          /\ messages[j].kind = "assistant"

-----------------------------------------------------------------------------
(* C13: every execution of a tool call hands chat() a result that is
   appended to the transcript, and the turn goes on; a call whose arguments
   do not fit the handler's signature yields the "Tool execution failed"
   error result. *)
C13_ToolFailureNeverAbortsTurn ==
    [][(pc = "tools" /\ pending # <<>>) =>
          /\ ToolResultAppended
          /\ Last(messages').name = Head(pending).name
          /\ (Head(pending).name \in tool_map /\ ~Head(pending).args_ok) =>
                Last(messages').result = ExecFailed
          /\ pc' \in {"loop", "tools"}
          /\ ret' = ret]_vars

-----------------------------------------------------------------------------
(* C14: the booking changes only in a step that executes a tool call whose
   result carries no error: a step that appends a user or an assistant
   message, a provider failure, an unknown tool, a refused commit and a tool
   execution with an error result leave every slot unchanged. *)
ErrorMarked(r) == r.kind \in {"unknown_tool", "exec_failed", "error"}

C14_SlotsChangeOnlyOnToolSuccess ==
    [][booking' # booking =>
          \/ ResetConversation
          \/ /\ ToolResultAppended
             /\ ~ErrorMarked(Last(messages').result)]_vars

-----------------------------------------------------------------------------
(* C15: the transcript is append-only between resets: every step other than
   reset_conversation() leaves the entries it found as a prefix of the new
   transcript; the first entry is always the system prompt, across resets
   too. *)
IsPrefix(s, t) == Len(s) <= Len(t) /\ SubSeq(t, 1, Len(s)) = s

SystemPromptFirst == Len(messages) >= 1 /\ Head(messages) = SystemPrompt

C15_TranscriptAppendOnly ==
    /\ []SystemPromptFirst
    /\ [][ResetConversation \/ IsPrefix(messages, messages')]_vars

\* a transcript that has grown past the warning note by refused commits
C15_Witness ==
    /\ CountKind(messages, "warning") = 1
    /\ CountKind(messages, "tool_result") = 0
    /\ CountKind(messages, "cannot_book") >= 1
    /\ iteration_count = WARNING_THRESHOLD + 1

-----------------------------------------------------------------------------
(* C16: reset_conversation() leaves, from whatever state it is called in,
   every slot of the booking null, the transcript equal to its own first
   entry (the system prompt), iteration_count 0 and the session's patient
   the same. *)
AfterReset ==
    /\ \A f \in DOMAIN booking' \ {"patient"} : booking'[f] = None
    /\ booking'.patient = booking.patient
    /\ booking'.patient = SessionPatient
    /\ messages' = <<SystemPrompt>>
    /\ messages' = <<Head(messages)>>
    /\ iteration_count' = 0

C16_ResetRestoresInitialState ==
    [][(pc = "idle" /\ ret' = ResetRet) => AfterReset]_vars

\* reset_conversation() has returned
C16_Witness ==
    /\ ret = ResetRet
    /\ booking = NewBooking
    /\ messages = <<SystemPrompt>>
    /\ iteration_count = 0

-----------------------------------------------------------------------------
(* C17: for every booking, missing_fields() lists exactly the required
   fields that are null and no others, in the order provider,
   location/department, appointment type, date, time. *)
NullIf(v, label) == IF v = None THEN <<label>> ELSE <<>>

NullFieldLabels(b) ==
    NullIf(b.provider_id, "provider")
    \o NullIf(b.department_id, "location/department")
    \o NullIf(b.appointment_type, "appointment type (NEW/ESTABLISHED)")
    \o NullIf(b.date, "date")
    \o NullIf(b.appointment_time, "time")

C17_MissingFieldsAreNullFields == missing_fields(booking) = NullFieldLabels(booking)

-----------------------------------------------------------------------------
(* C18: to_booking_request() on a complete booking yields a payload whose
   patient_id is the session patient's id and whose provider_id,
   department_id, appointment_type, date and appointment_time are the slot
   values, so that a booking rebuilt from the payload has the same slots;
   on an incomplete booking it raises ValueError and yields no payload. *)
FromRequest(p) ==
    [NewBooking EXCEPT !.provider_id = p.provider_id,
                       !.department_id = p.department_id,
                       !.appointment_type = p.appointment_type,
                       !.date = p.date,
                       !.appointment_time = p.appointment_time]

C18_RequestRoundTrip ==
    ret.kind \in {"payload", "raised"} =>
        IF is_complete(booking)
        THEN /\ ret.kind = "payload"
             /\ ret.patient_id = PyInt(SessionPatient.id)
             /\ \A f \in SlotFields : ret[f] = booking[f]
             /\ \A f \in SlotFields : FromRequest(ret)[f] = booking[f]
        ELSE ret = Raised("ValueError")

\* the payload of a complete booking that holds falsy values
C18_Witness ==
    /\ ret.kind = "payload"
    /\ booking.provider_id = PyInt(0)
    /\ booking.date = PyStr("")

-----------------------------------------------------------------------------
(* C19 as stated: a reply whose envelopes are all malformed yields no tool
   call and no error; chat() executes no tool and returns the reply's text
   in that pass. *)
OnlyMalformed(m) == m.calls # <<>> /\ \A i \in DOMAIN m.calls : ~m.calls[i].parsed

ReturnedAsText == pc' = "idle" /\ ret' = TextRet(TheReply) /\ pending' = <<>>

C19_MalformedReplyReturned ==
    [][(ReplyAppended /\ OnlyMalformed(TheReply)) => ReturnedAsText]_vars

(* C19 as amended: a malformed envelope is never executed; a reply whose
   envelopes are all malformed is returned as text in that pass unless it
   holds a booking phrase, the text "<tool_call>book_appointment" of a
   malformed envelope included: then chat() answers with the refusal (or
   the booking) and continues the loop. *)
MalformedReplyStep ==
    (ReplyAppended /\ OnlyMalformed(TheReply)) =>
        IF _ready_to_book(TheReply)
        THEN /\ pc' = "loop"
             /\ Last(messages').kind \in {"cannot_book", "booking_result"}
             /\ pending' = <<>>
        ELSE ReturnedAsText

C19_MalformedSkipped ==
    /\ [](\A i \in DOMAIN pending : pending[i].parsed)
    /\ [][MalformedReplyStep]_vars

\* a reply with a malformed envelope was returned as text
C19_Witness ==
    /\ pc = "idle"
    /\ ret.kind = "text"
    /\ OnlyMalformed(ret.content)

-----------------------------------------------------------------------------
(* C20: an argument value written in double or single quotes is extracted
   as a string, the text between the quotes (a quoted 1 stays the string
   "1"); a bare token is extracted as an integer exactly when it parses as
   one and as a string otherwise. *)
QuotedText(t) ==
    /\ Len(t) >= 2
    /\ Head(t) = t[Len(t)]
    /\ Head(t) \in {DQ, SQ}
    /\ \A i \in 2..(Len(t) - 1) : t[i] \notin {Head(t), ","}

BareToken(t) == t # <<>> /\ \A i \in DOMAIN t : t[i] \in {"1", "-", "a"}

ExpectedValue(t) ==
    IF QuotedText(t) THEN PyStr(Join(SubSeq(t, 2, Len(t) - 1)))
    ELSE IF IsIntText(t) THEN PyInt(IntOfText(t)) ELSE PyStr(Join(t))

C20_QuotedStaysString ==
    pending[1].kind = "call" =>
        LET t == pending[1].text
        IN  (QuotedText(t) \/ BareToken(t)) =>
                pending[1].arguments = <<[key |-> "k", value |-> ExpectedValue(t)]>>

-----------------------------------------------------------------------------
(* C26: iteration_count counts the provider calls attempted since the
   conversation began or was reset: every loop pass (a step from the loop
   test below the ceiling, the provider call of which may fail) adds
   exactly one, the execution of a tool call adds nothing, and no other
   step but a reset changes the counter; so the replies in the transcript
   never outnumber the counter and the counter never exceeds
   MAX_ITERATIONS. *)
CounterBoundsProviderCalls ==
    /\ CountKind(messages, "assistant") <= iteration_count
    /\ iteration_count <= MAX_ITERATIONS

PassCounted ==
    /\ (pc = "loop" /\ iteration_count < MAX_ITERATIONS) =>
           iteration_count' = iteration_count + 1
    /\ ReplyAppended => iteration_count' = iteration_count + 1
    /\ ToolResultAppended => iteration_count' = iteration_count
    /\ iteration_count' # iteration_count =>
           \/ ResetConversation
           \/ pc = "loop" /\ iteration_count' = iteration_count + 1

-----------------------------------------------------------------------------
(* C27: every chat() call terminates within MAX_ITERATIONS passes, whatever
   the provider replies.  The passes left (MAX_ITERATIONS - iteration_count)
   never go below zero, and every step of a running call either uses up a
   pass or, with the passes left unchanged, shortens what is left of the
   pass (the tool calls still to execute, then the return); a running call
   always has a step to take. *)
PassesLeft == MAX_ITERATIONS - iteration_count
StepsLeftInPass == Len(pending) + (IF pc = "idle" THEN 0 ELSE 1)

CallCanStep ==
    /\ PassesLeft >= 0
    /\ pc = "tools" => pending # <<>>
    /\ pc = "loop" => pending = <<>>

CallProgresses ==
    pc # "idle" =>
        \/ PassesLeft' < PassesLeft
        \/ PassesLeft' = PassesLeft /\ StepsLeftInPass' < StepsLeftInPass

C27_ChatTerminates == []CallCanStep /\ [][CallProgresses]_vars

\* one chat() call in which every reply asked for the commit: ten passes,
\* then the fallback
C27_Witness ==
    /\ pc = "idle"
    /\ ret = FallbackRet
    /\ CountKind(messages, "operator") = 1
    /\ CountKind(messages, "cannot_book") = MAX_ITERATIONS

-----------------------------------------------------------------------------
(* C29: the commit is terminal: once the commit handler has returned
   success in a conversation, no later reply of that conversation makes
   the handler run again. *)
Committed(msgs) == \E i \in DOMAIN msgs : msgs[i].result = BookSuccess

-----------------------------------------------------------------------------
(* C28: a conversation in which provider, location and appointment type
   have been settled and the operator has given date, time and the
   confirmation reaches the commit: when the reply that follows asks for
   the booking, the Slot State is complete and the commit handler is
   invoked with its payload. *)
LookupsDone(b) ==
    /\ b.provider_id # None
    /\ b.department_id # None
    /\ b.appointment_type # None /\ b.appointment_type.t = "str"

C28_ConversationReachesCommit ==
    [][(ReplyAppended /\ _ready_to_book(TheReply) /\ LookupsDone(booking)) =>
          /\ is_complete(booking)
          /\ Last(messages').kind = "booking_result"]_vars

-----------------------------------------------------------------------------
(* C30: whenever provider_id and department_id are both set, the department
   is one of the locations of that provider. *)
DepartmentsOf(p) ==
    {PyInt(LocationsOf(p)[i].department_id) : i \in DOMAIN LocationsOf(p)}

C30_LocationBelongsToProvider ==
    (booking.provider_id # None /\ booking.department_id # None) =>
        booking.department_id \in DepartmentsOf(booking.provider_id.i)

-----------------------------------------------------------------------------
(* C25: whatever the backend answers, every handler of tools.py returns a
   structured result: a success payload or a payload with a message under
   the error key. *)
ErrorPayloads == {ErrPayload, BookFailure}
SuccessKinds ==
    {"not_found", "found", "history", "times", "book_success", "insurance",
     "rate", "query", "verbatim_object"}

StructuredResult(r) == r \in ErrorPayloads \/ r.kind \in SuccessKinds

C25_HandlersReturnStructuredResult ==
    pending # <<>> /\ pending[1].kind = "returned" =>
        StructuredResult(pending[1].result)

-----------------------------------------------------------------------------
(* Reading the server *)

\* the Agent registered for the operator
Registered == objects[agents[User]]
\* the session initialize_agent_for_patient builds for patient id p
GreetedAgent(p) ==
    [NewAgent(PatientOf(p)) EXCEPT !.messages = <<SystemPrompt, GreetingMsg>>]
\* the steps in which handle_disconnect and handle_connect run
DisconnectStep == connected /\ ~connected'
ConnectStep == ~connected /\ connected'
\* in this step the handler of thread t registers the Agent it has built
Registers(t) ==
    /\ handlers[t].pc = "load"
    /\ handlers'[t] = Finished("message")
    /\ agents'[User] # 0
    /\ objects'[agents'[User]] = GreetedAgent(handlers[t].patient)

-----------------------------------------------------------------------------
(* C21: a disconnect leaves the registry and the operator's session as they
   are; an entry of the registry is never removed and changes only when a
   handler registers the session it has built for a new subject (a connect
   for another patient than the registered one, or a next_patient); a
   connect for the patient of the registered session resumes that session:
   it creates no session and changes nothing. *)
DisconnectKeeps ==
    DisconnectStep => agents' = agents /\ objects' = objects

EntryStaysUntilReplaced ==
    /\ agents[User] # 0 => agents'[User] # 0
    /\ agents' # agents =>
          \E t \in Threads :
             /\ Registers(t)
             /\ handlers[t].op = "connect" =>
                   \/ agents[User] = 0
                   \/ Registered.patient.id # handlers[t].patient

ConnectResumes ==
    (ConnectStep /\ agents[User] # 0) =>
        /\ agents' = agents
        /\ objects' = objects
        /\ \E t \in Threads :
              \/ handlers'[t] = Finished("resumed")
              \/ /\ handlers'[t].op = "connect"
                 /\ handlers'[t].patient # Registered.patient.id

C21_DisconnectKeepsSession ==
    [][DisconnectKeeps /\ EntryStaysUntilReplaced /\ ConnectResumes]_vars

\* after a disconnect a connect has resumed a session that holds a
\* conversation
C21_Witness ==
    /\ \E t \in Threads : handlers[t] = Finished("resumed")
    /\ agents[User] # 0
    /\ CountKind(Registered.messages, "operator") >= 1
    /\ Registered.iteration_count >= 1

-----------------------------------------------------------------------------
(* C22: access to the operator's session is serialized: no two handlers
   are at the same time inside chat() or reset_conversation() on the same
   Agent. *)
InSession(t) ==
    \/ handlers[t].op = "message" /\ handlers[t].pc \in {"loop", "tools"}
    \/ handlers[t].op = "reset"
          /\ handlers[t].pc \in {"reset_count", "reset_booking"}

C22_SessionAccessSerialized ==
    \A t1, t2 \in Threads :
        (t1 # t2 /\ InSession(t1) /\ InSession(t2)) =>
            handlers[t1].agent # handlers[t2].agent

-----------------------------------------------------------------------------
(* C23: a handler that looks the operator's key up never gets a session
   whose transcript is cut back to the system entry while its counter or
   its Slot State still holds the old value. *)
Torn(a) ==
    /\ Len(a.messages) = 1
    /\ \/ a.iteration_count # 0
       \/ a.booking # AppointmentBooking(a.patient)

\* agents.get(user_id) of handle_message or handle_reset returns an Agent
LooksUp(t) ==
    /\ handlers[t].op = "idle"
    /\ handlers'[t].op \in {"message", "reset"}

C23_ResetAtomicForLookups ==
    [][\A t \in Threads : LooksUp(t) => ~Torn(objects[handlers'[t].agent])]_vars

-----------------------------------------------------------------------------
(* C24: when the handler of next_patient has returned for an operator who
   had a session, the registry entry of the operator is another session
   than before: the session just begun for the new patient. *)
NextPatientReturns(t) ==
    handlers[t].op = "next_patient" /\ handlers'[t].op = "idle"

C24_SwitchReplacesSession ==
    [][\A t \in Threads : (NextPatientReturns(t) /\ agents[User] # 0) =>
          /\ agents'[User] # agents[User]
          /\ agents'[User] # 0
          /\ objects'[agents'[User]] = GreetedAgent(handlers[t].patient)]_vars

-----------------------------------------------------------------------------
(* C31: whenever provider_id and appointment_type are both set, the
   appointment_type is the verdict that check_appointment_history gives
   for the session's patient and that provider: ESTABLISHED when the
   patient has a completed visit to the provider, NEW otherwise. *)
VerdictFor(p) == check_appointment_history(Resp(TRUE, Obj(VisitsOf(p), FALSE, FALSE)))

C31_TypeIsVerdictForProvider ==
    (booking.provider_id # None /\ booking.appointment_type # None) =>
        booking.appointment_type = VerdictFor(booking.provider_id.i).atype

-----------------------------------------------------------------------------
(* C33: identifier and display name of a slot are set together: provider_id
   is set iff provider_name is, and department_id is set iff location_name
   is. *)
C33_IdAndNameSetTogether ==
    /\ booking.provider_id # None <=> booking.provider_name # None
    /\ booking.department_id # None <=> booking.location_name # None

-----------------------------------------------------------------------------
(* C32: the appointment_type of the Slot State is always None, 'NEW' or
   'ESTABLISHED', whatever the handlers return and whatever arguments the
   calls carry. *)
C32_TypeIsOneOfTwoCategories ==
    booking.appointment_type \in {None, PyStr("NEW"), PyStr("ESTABLISHED")}

\* the verdict NEW has replaced an earlier verdict ESTABLISHED
C32_Witness ==
    /\ booking.appointment_type = PyStr("NEW")
    /\ \E i \in DOMAIN messages :
          /\ messages[i].kind = "tool_result"
          /\ messages[i].result = History("ESTABLISHED")

-----------------------------------------------------------------------------
(* C34: a connect for the patient of the registered session changes
   nothing; when the handler of a connect for another patient than the
   registered one has returned, the registry entry is a newly begun session
   for that patient. *)
ConnectReturns(t) ==
    handlers[t].op = "connect" /\ handlers'[t].op = "idle"

C34_ConnectResumesOrReplaces ==
    [][/\ ConnectResumes
       /\ \A t \in Threads : (ConnectReturns(t) /\ agents[User] # 0) =>
             /\ Registers(t)
             /\ agents'[User] # agents[User]]_vars

-----------------------------------------------------------------------------
(* C35: a message or reset event for an operator without a registered
   session is answered with the error "No agent found", and a message
   event without text with the error "No text in message"; in both cases
   the registry and every session (transcript, Slot State, counter) are
   left as they are, so no provider call has been made. *)
\* a handler of thread t begins on a connected client
EventBegins(t) ==
    /\ connected /\ connected'
    /\ handlers[t].op = "idle"
    /\ handlers'[t] # handlers[t]

C35_RefusedEventChangesNothing ==
    [][\A t \in Threads :
          /\ (EventBegins(t) /\ agents[User] = 0
                 /\ handlers'[t].op # "next_patient") =>
                handlers'[t] = Finished("no_agent")
          /\ (EventBegins(t) /\ handlers'[t].pc \in {"no_agent", "no_text"}) =>
                agents' = agents /\ objects' = objects]_vars

\* a message without text was refused in a session that holds a
\* conversation
C35_Witness ==
    /\ \E t \in Threads : handlers[t] = Finished("no_text")
    /\ agents[User] # 0
    /\ CountKind(Registered.messages, "operator") >= 1

-----------------------------------------------------------------------------
(* C37: for a time written HH:MM, calculate_arrival_time returns the time
   written HH:MM that is 30 minutes earlier for the type NEW and 10 minutes
   earlier for ESTABLISHED, counted on the minutes of the day and wrapping
   at midnight; a text that strptime does not parse is returned as it is. *)
\* the text is two digits, a colon, two digits, hour below 24, minute below 60
IsClock(t) ==
    /\ Len(t) = 5
    /\ t[3] = ":"
    /\ DigitsValue(SubSeq(t, 1, 2)) \in 0..23
    /\ DigitsValue(SubSeq(t, 4, 5)) \in 0..59
MinuteOfDay(t) == 60 * DigitsValue(SubSeq(t, 1, 2)) + DigitsValue(SubSeq(t, 4, 5))

C37_ArrivalIsEarlierByTypeOffset ==
    pending[1].kind = "arrival" =>
        LET t == pending[1].appointment_time
            a == pending[1].arrival_time
            early == IF pending[1].appointment_type = "NEW" THEN 30 ELSE 10
        IN  /\ IsClock(t) =>
                 /\ IsClock(a)
                 /\ (MinuteOfDay(a) + early) % 1440 = MinuteOfDay(t)
            /\ strptime(t) = -1 => a = t

\* 00:05 for a NEW appointment gives 23:35
C37_Witness ==
    /\ pending[1].kind = "arrival"
    /\ pending[1].appointment_time = <<"0", "0", ":", "0", "5">>
    /\ pending[1].appointment_type = "NEW"
    /\ pending[1].arrival_time = <<"2", "3", ":", "3", "5">>

-----------------------------------------------------------------------------
(* C36: /api/book inserts an appointment only for a request that has all
   six required fields, a type NEW or ESTABLISHED, a date and a time that
   parse; a request that fails one of the checks gets an error response and
   nothing is inserted; and whenever a row has been inserted the response
   is the success with the details echoing time, arrival time and type. *)
ValidBooking(data) ==
    /\ data.missing = ""
    /\ data.appointment_type \in {"NEW", "ESTABLISHED"}
    /\ data.date_parses
    /\ strptime(data.appointment_time) # -1

C36_BookInsertsOnlyValidAndConfirms ==
    pending[1].kind = "booked" =>
        LET data == pending[1].data
            response == pending[1].response
        IN  /\ response.inserted => ValidBooking(data)
            /\ ~ValidBooking(data) =>
                  /\ response.status # 200
                  /\ ~response.success
                  /\ ~response.inserted
            /\ response.inserted =>
                  /\ response.status = 200
                  /\ response.success
                  /\ Len(response.details) = 1
                  /\ response.details[1].appointment_time = data.appointment_time
                  /\ response.details[1].type = data.appointment_type

====
